---- MODULE Spec2Model ----
\* SSE2 variant of the lossless-encoder kernels (src/dsp/lossless_enc_sse2.c):
\* SubtractGreenFromBlueAndRed, TransformColor and HistogramAdd, modelled at
\* the level of the 128-bit intrinsics they are written with.
EXTENDS Integers, Sequences, FiniteSets, TLC

VARIABLES
  op,          \* which entry point is running
  argb,        \* the pixel buffer argb_data[0..num_pixels-1] followed by guard words
  num_pixels,  \* the num_pixels argument
  m,           \* the VP8LMultipliers record (TransformColor only)
  i,           \* the loop variable of the running transform
  pc,          \* position of the running transform: "vec", "tail", "done"
  argb0,       \* ghost: the buffer as it was when the call started
  loads,       \* ghost: loads[j] = number of loads of argb_data[j] so far
  stores,      \* ghost: stores[j] = number of stores to argb_data[j] so far
  mem,         \* the VP8LHistogram objects, by address
  pa, pb, pout,\* the a, b and out arguments of the running HistogramAdd
  hpc,         \* position of HistogramAdd: "idle", "vec", "lit", "dist", "done"
  mem0,        \* ghost: mem as it was when the running call started
  ncalls,      \* ghost: number of HistogramAdd calls started
  first,       \* ghost: the <<a, b, out>> of the first HistogramAdd call
  seed         \* ghost: the pattern the histograms were filled with

vars == <<op, argb, num_pixels, m, i, pc, argb0, loads, stores,
          mem, pa, pb, pout, hpc, mem0, ncalls, first, seed>>

tvars == <<op, argb, num_pixels, m, i, pc, argb0, loads, stores>>
hvars == <<mem, pa, pb, pout, hpc, mem0, ncalls, first, seed>>

-----------------------------------------------------------------------------
\* Bounds of the model.

\* largest num_pixels tried: two full vector groups plus a one-pixel tail
MaxPixels == 9
\* words of caller memory modelled after the end of the buffer
GuardWords == 4
\* largest palette_code_bits_ tried
MaxPaletteBits == 2
\* histogram contents are drawn from patterns 0..MaxSeed
MaxSeed == 1

-----------------------------------------------------------------------------
\* Machine arithmetic. A 32-bit word is held as the integer in
\* -2^31 .. 2^31-1 with the same bit pattern (two's complement), so a
\* uint32_t below 2^31 is held as its value.

Pow2(n) == 2^n

ToInt16(x) == IF x % 65536 >= 32768 THEN (x % 65536) - 65536 ELSE x % 65536

ToInt8(x) == IF x % 256 >= 128 THEN (x % 256) - 256 ELSE x % 256

RECURSIVE BitAnd(_, _, _)
BitAnd(x, y, n) ==
  IF n = 0 THEN 0
  ELSE (x % 2) * (y % 2) + 2 * BitAnd(x \div 2, y \div 2, n - 1)

RECURSIVE BitOr(_, _, _)
BitOr(x, y, n) ==
  IF n = 0 THEN 0
  ELSE (IF (x % 2) + (y % 2) > 0 THEN 1 ELSE 0)
         + 2 * BitOr(x \div 2, y \div 2, n - 1)

\* a 32-bit word as its two 16-bit lanes (each 0..65535), and back
Lo16(w) == w % 65536

Hi16(w) == (w \div 65536) % 65536

Word(lo, hi) == ToInt16(hi) * 65536 + lo

\* a 32-bit word as its four bytes, least significant first, and back
ByteOf(w, k) == (w \div Pow2(8 * k)) % 256

FromBytes(b0, b1, b2, b3) == Word(b0 + 256 * b1, b2 + 256 * b3)

\* 32-bit addition, wrapping
Add32(x, y) ==
  LET lo == Lo16(x) + Lo16(y)
      hi == Hi16(x) + Hi16(y) + (lo \div 65536)
  IN  Word(lo % 65536, hi % 65536)

-----------------------------------------------------------------------------
\* The SSE2 intrinsics used. A __m128i is a sequence of four 32-bit words,
\* element 1 the one at the lowest address.

\* F applied to the value of x (x is evaluated once)
Eval(F(_), x) == CHOOSE r \in {F(w) : w \in {x}} : TRUE

\* a 32-bit operation applied to each 32-bit lane
Map1(Op(_), x) == Eval(LAMBDA w : [k \in 1..4 |-> Op(w[k])], x)

Map2(Op(_, _), x, y) ==
  Eval(LAMBDA w : [k \in 1..4 |-> Op(w[1][k], w[2][k])], <<x, y>>)

And32(a, b) == Word(BitAnd(Lo16(a), Lo16(b), 16), BitAnd(Hi16(a), Hi16(b), 16))

Or32(a, b) == Word(BitOr(Lo16(a), Lo16(b), 16), BitOr(Hi16(a), Hi16(b), 16))

\* logical shifts of a 32-bit lane, for counts 0..15 (left) and 0..31 (right)
Shl32(a, n) ==
  LET lo == Lo16(a) * Pow2(n)
      hi == Hi16(a) * Pow2(n) + (lo \div 65536)
  IN  Word(lo % 65536, hi % 65536)

Shr32(a, n) ==
  IF n >= 16 THEN Word(Hi16(a) \div Pow2(n - 16), 0)
  ELSE Word((Lo16(a) \div Pow2(n)) + (Hi16(a) % Pow2(n)) * Pow2(16 - n),
            Hi16(a) \div Pow2(n))

Shl16x2(a, n) == Word((Lo16(a) * Pow2(n)) % 65536, (Hi16(a) * Pow2(n)) % 65536)

\* byte-wise subtraction and addition, wrapping; byte-wise unsigned saturating
Sub8x4(a, b) ==
  LET d(j) == (ByteOf(a, j) - ByteOf(b, j)) % 256
  IN  FromBytes(d(0), d(1), d(2), d(3))

Add8x4(a, b) ==
  LET s(j) == (ByteOf(a, j) + ByteOf(b, j)) % 256
  IN  FromBytes(s(0), s(1), s(2), s(3))

SubS8x4(a, b) ==
  LET d(j) == IF ByteOf(a, j) >= ByteOf(b, j) THEN ByteOf(a, j) - ByteOf(b, j) ELSE 0
  IN  FromBytes(d(0), d(1), d(2), d(3))

\* high 16 bits of the signed 16x16 -> 32 product, per 16-bit lane
MulHi16(x, y) == ((ToInt16(x) * ToInt16(y)) \div 65536) % 65536

MulHi16x2(a, b) == Word(MulHi16(Lo16(a), Lo16(b)), MulHi16(Hi16(a), Hi16(b)))

\* low 16 bits of the product, per 16-bit lane
MulLo16x2(a, b) ==
  Word((ToInt16(Lo16(a)) * ToInt16(Lo16(b))) % 65536,
       (ToInt16(Hi16(a)) * ToInt16(Hi16(b))) % 65536)

\* 16-bit-lane addition: no carry from the low lane into the high lane
Add16x2(a, b) == Word((Lo16(a) + Lo16(b)) % 65536, (Hi16(a) + Hi16(b)) % 65536)

mm_set1_epi32(c) == <<c, c, c, c>>

mm_and_si128(x, y) == Map2(And32, x, y)

mm_or_si128(x, y) == Map2(Or32, x, y)

mm_slli_epi32(x, n) == Map1(LAMBDA a : Shl32(a, n), x)

mm_srli_epi32(x, n) == Map1(LAMBDA a : Shr32(a, n), x)

mm_slli_epi16(x, n) == Map1(LAMBDA a : Shl16x2(a, n), x)

mm_subs_epu8(x, y) == Map2(SubS8x4, x, y)

mm_sub_epi8(x, y) == Map2(Sub8x4, x, y)

mm_add_epi8(x, y) == Map2(Add8x4, x, y)

mm_mullo_epi16(x, y) == Map2(MulLo16x2, x, y)

mm_mulhi_epi16(x, y) == Map2(MulHi16x2, x, y)

mm_add_epi16(x, y) == Map2(Add16x2, x, y)

mm_add_epi32(x, y) == Map2(Add32, x, y)

\* the eight 16-bit lanes of a vector, lane 0 first
Lane16(x, j) == IF j % 2 = 0 THEN Lo16(x[(j \div 2) + 1]) ELSE Hi16(x[(j \div 2) + 1])

FromLanes16(l) == [k \in 1..4 |-> Word(l[2 * k - 1], l[2 * k])]

\* _MM_SHUFFLE(z, y, x, w) selects source lane w for lane 0, x for lane 1, ...
MM_SHUFFLE(z, y, x, w) == <<w, x, y, z>>

mm_shufflelo_epi16(x, imm) ==
  Eval(LAMBDA v : FromLanes16([j \in 1..8 |->
         IF j <= 4 THEN Lane16(v, imm[j]) ELSE Lane16(v, j - 1)]), x)

mm_shufflehi_epi16(x, imm) ==
  Eval(LAMBDA v : FromLanes16([j \in 1..8 |->
         IF j <= 4 THEN Lane16(v, j - 1) ELSE Lane16(v, 4 + imm[j - 4])]), x)

\* _mm_set_epi16(e7, ..., e0): e0 is lane 0; arguments are shorts
mm_set_epi16(e7, e6, e5, e4, e3, e2, e1, e0) ==
  FromLanes16(<<e0 % 65536, e1 % 65536, e2 % 65536, e3 % 65536,
                e4 % 65536, e5 % 65536, e6 % 65536, e7 % 65536>>)

\* _mm_loadu_si128(&p[at]) and _mm_storeu_si128(&p[at], v), at counted from 0
mm_loadu_si128(p, at) == [k \in 1..4 |-> p[at + k]]

mm_storeu_si128(p, at, v) ==
  Eval(LAMBDA w : [p EXCEPT ![at + 1] = w[1], ![at + 2] = w[2],
                            ![at + 3] = w[3], ![at + 4] = w[4]], v)

-----------------------------------------------------------------------------
\* Packed pixels: 0xAARRGGBB.

Pixel(a, r, g, b) == FromBytes(b, g, r, a)

Alpha(w) == ByteOf(w, 3)

Red(w) == ByteOf(w, 2)

Green(w) == ByteOf(w, 1)

Blue(w) == ByteOf(w, 0)

\* ghost bookkeeping: one more access to each of p[from .. from+count-1]
Touch(f, from, count) ==
  [j \in DOMAIN f |-> IF j > from /\ j <= from + count THEN f[j] + 1 ELSE f[j]]

\* word kept in the caller's memory after the buffer: 0xDEADBEEF
GuardWord == Pixel(222, 173, 190, 239)

-----------------------------------------------------------------------------
\* Scalar fallbacks (VP8LSubtractGreenFromBlueAndRed_C, VP8LTransformColor_C):
\* defined in the plain-C lossless encoder, called here on the tail.

SubtractGreenPixel_C(px) ==
  LET green == Green(px)
      new_r == (Red(px) - green) % 256
      new_b == (Blue(px) - green) % 256
  IN  Pixel(Alpha(px), new_r, green, new_b)

VP8LSubtractGreenFromBlueAndRed_C(p, from, count) ==
  [j \in DOMAIN p |->
     IF j > from /\ j <= from + count THEN SubtractGreenPixel_C(p[j]) ELSE p[j]]

\* delta(m, c): low 8 bits of (int8 m * int8 c) >> 5, arithmetic shift
ColorTransformDelta(color_pred, color) ==
  ((ToInt8(color_pred) * ToInt8(color)) \div 32) % 256

TransformColorPixel_C(mm, px) ==
  LET green == Green(px)
      red == Red(px)
      new_red == (red - ColorTransformDelta(mm.green_to_red_, green)) % 256
      new_blue == (Blue(px) - ColorTransformDelta(mm.green_to_blue_, green)
                            - ColorTransformDelta(mm.red_to_blue_, red)) % 256
  IN  Pixel(Alpha(px), new_red, green, new_blue)

VP8LTransformColor_C(mm, p, from, count) ==
  [j \in DOMAIN p |->
     IF j > from /\ j <= from + count THEN TransformColorPixel_C(mm, p[j]) ELSE p[j]]

-----------------------------------------------------------------------------
\* Subtract-Green Transform

SubtractGreenLoopCondOffByOne(ii, n) == ii < n

\* for (i = 0; i + 4 <= num_pixels; i += 4)
SubtractGreenLoopCond(ii, n) == ii + 4 <= n

\* const __m128i mask = _mm_set1_epi32(0x0000ff00);
mask == mm_set1_epi32(65280)

SubtractGreenLoopBody(p, ii) ==
  LET in == mm_loadu_si128(p, ii)
      in_00g0 == mm_and_si128(in, mask)
      in_0g00 == mm_slli_epi32(in_00g0, 8)
      in_000g == mm_srli_epi32(in_00g0, 8)
      in_0g0g == mm_or_si128(in_0g00, in_000g)
      out == mm_sub_epi8(in, in_0g0g)
  IN  mm_storeu_si128(p, ii, out)

SubtractGreenVecStep ==
  /\ op = "SubtractGreen" /\ pc = "vec"
  /\ SubtractGreenLoopCond(i, num_pixels)
  /\ argb' = SubtractGreenLoopBody(argb, i)
  /\ loads' = Touch(loads, i, 4)
  /\ stores' = Touch(stores, i, 4)
  /\ i' = i + 4
  /\ UNCHANGED <<op, num_pixels, m, pc, argb0>>
  /\ UNCHANGED hvars

\* fallthrough and finish off with plain-C
SubtractGreenTail ==
  /\ op = "SubtractGreen" /\ pc = "vec"
  /\ ~SubtractGreenLoopCond(i, num_pixels)
  /\ argb' = VP8LSubtractGreenFromBlueAndRed_C(argb, i, num_pixels - i)
  /\ loads' = Touch(loads, i, num_pixels - i)
  /\ stores' = Touch(stores, i, num_pixels - i)
  /\ pc' = "done"
  /\ UNCHANGED <<op, num_pixels, m, i, argb0>>
  /\ UNCHANGED hvars

-----------------------------------------------------------------------------
\* Color Transform

CSTShift4(X) == ToInt16((X * 256) % 65536) \div 16

\* #define CST(X)  (((int16_t)(m->X << 8)) >> 5)   // sign-extend
\* m->X is a uint8_t; the conversion to int16_t keeps the low 16 bits and
\* the shift of a negative value is arithmetic, as on every SSE2 target.
CST(X) == ToInt16((X * 256) % 65536) \div 32

TransformColorLoopCond(ii, n) == ii + 4 <= n

\* alpha-green masks: _mm_set1_epi32(0xff00ff00)
mask_ag == mm_set1_epi32(-16711936)

mask_rb_all == mm_set1_epi32(-1)

\* red-blue masks: _mm_set1_epi32(0x00ff00ff)
mask_rb == mm_set1_epi32(16711935)

TransformColorLoopBody(mm, p, ii) ==
  LET mults_rb == mm_set_epi16(
          CST(mm.green_to_red_), CST(mm.green_to_blue_),
          CST(mm.green_to_red_), CST(mm.green_to_blue_),
          CST(mm.green_to_red_), CST(mm.green_to_blue_),
          CST(mm.green_to_red_), CST(mm.green_to_blue_))
      mults_b2 == mm_set_epi16(
          CST(mm.red_to_blue_), 0, CST(mm.red_to_blue_), 0,
          CST(mm.red_to_blue_), 0, CST(mm.red_to_blue_), 0)
      in == mm_loadu_si128(p, ii)
      A == mm_and_si128(in, mask_ag)
      B == mm_shufflelo_epi16(A, MM_SHUFFLE(2, 2, 0, 0))
      C == mm_shufflehi_epi16(B, MM_SHUFFLE(2, 2, 0, 0))
      D == mm_mulhi_epi16(C, mults_rb)
      E == mm_slli_epi16(in, 8)
      F == mm_mulhi_epi16(E, mults_b2)
      G == mm_srli_epi32(F, 16)
      H == mm_add_epi8(G, D)
      I == mm_and_si128(H, mask_rb)
      out == mm_sub_epi8(in, I)
  IN  mm_storeu_si128(p, ii, out)

TransformColorVecStep ==
  /\ op = "TransformColor" /\ pc = "vec"
  /\ TransformColorLoopCond(i, num_pixels)
  /\ argb' = TransformColorLoopBody(m, argb, i)
  /\ loads' = Touch(loads, i, 4)
  /\ stores' = Touch(stores, i, 4)
  /\ i' = i + 4
  /\ UNCHANGED <<op, num_pixels, m, pc, argb0>>
  /\ UNCHANGED hvars

TransformColorTailSubtractGreen ==
  /\ op = "TransformColor" /\ pc = "vec"
  /\ ~TransformColorLoopCond(i, num_pixels)
  /\ argb' = VP8LSubtractGreenFromBlueAndRed_C(argb, i, num_pixels - i)
  /\ loads' = Touch(loads, i, num_pixels - i)
  /\ stores' = Touch(stores, i, num_pixels - i)
  /\ pc' = "done"
  /\ UNCHANGED <<op, num_pixels, m, i, argb0>>
  /\ UNCHANGED hvars

\* fallthrough and finish off with plain-C
TransformColorTail ==
  /\ op = "TransformColor" /\ pc = "vec"
  /\ ~TransformColorLoopCond(i, num_pixels)
  /\ argb' = VP8LTransformColor_C(m, argb, i, num_pixels - i)
  /\ loads' = Touch(loads, i, num_pixels - i)
  /\ stores' = Touch(stores, i, num_pixels - i)
  /\ pc' = "done"
  /\ UNCHANGED <<op, num_pixels, m, i, argb0>>
  /\ UNCHANGED hvars

-----------------------------------------------------------------------------
\* Callers of the transforms: the buffers and multipliers they are given.


ByteSamples == {0, 1, 127, 128, 255}

MultSamples == {0, 3, 128, 255}

\* pixel j of the buffer built from the base pixel bp; pixels j and j+3 agree
GenPixel(bp, j) ==
  Pixel((bp.a + 17 * (j % 3)) % 256, (bp.r + 85 * (j % 3)) % 256,
        (bp.g + 85 * (j % 3)) % 256, (bp.b + 119 * (j % 3)) % 256)

GenBuffer(bp, n) ==
  [j \in 1..(n + GuardWords) |-> IF j <= n THEN GenPixel(bp, j - 1) ELSE GuardWord]

NoMultipliers == [green_to_red_ |-> 0, green_to_blue_ |-> 0, red_to_blue_ |-> 0]

HistIdle ==
  /\ mem = <<>> /\ mem0 = <<>>
  /\ pa = 0 /\ pb = 0 /\ pout = 0
  /\ hpc = "off" /\ ncalls = 0
  /\ first = <<>> /\ seed = 0

StartTransform(o, mm, bp, n) ==
  /\ op = o
  /\ m = mm
  /\ num_pixels = n
  /\ argb = GenBuffer(bp, n)
  /\ argb0 = argb
  /\ loads = [j \in 1..(n + GuardWords) |-> 0]
  /\ stores = [j \in 1..(n + GuardWords) |-> 0]
  /\ i = 0
  /\ pc = "vec"
  /\ HistIdle

InitSubtractGreen ==
  \E n \in 0..MaxPixels :
  \E bp \in [a : {0, 255}, r : ByteSamples, g : ByteSamples, b : ByteSamples] :
    StartTransform("SubtractGreen", NoMultipliers, bp, n)

\* every (multiplier, channel) byte pair, on a buffer of one group plus a tail
InitTransformColorPairs ==
  \E k \in 0..255 : \E g \in 0..85 :
    StartTransform("TransformColor",
      [green_to_red_ |-> k, green_to_blue_ |-> (k + 1) % 256,
       red_to_blue_ |-> (k + 2) % 256],
      [a |-> 255, r |-> (g + 1) % 256, g |-> g, b |-> (g + 7) % 256], 7)

InitTransformColorSizes ==
  \E n \in 0..MaxPixels :
  \E mm \in [green_to_red_ : MultSamples, green_to_blue_ : MultSamples,
             red_to_blue_ : MultSamples] :
  \E bp \in [a : {255}, r : {1, 127}, g : {0, 128, 255}, b : {0, 200}] :
    StartTransform("TransformColor", mm, bp, n)

InitT == InitSubtractGreen \/ InitTransformColorPairs \/ InitTransformColorSizes

NextT ==
  \/ SubtractGreenVecStep
  \/ SubtractGreenTail
  \/ TransformColorVecStep
  \/ TransformColorTail

SpecT == InitT /\ [][NextT]_vars

-----------------------------------------------------------------------------
\* Properties of the transforms.

\* the pixels of the buffer, counted from 1
Pixels == 1..num_pixels

\* C1: when SubtractGreenFromBlueAndRed has returned, every pixel's red byte
\* is (old red - old green) mod 256, its blue byte is (old blue - old green)
\* mod 256, and its alpha and green bytes are the old ones.
C1_SubtractGreenContract ==
  (op = "SubtractGreen" /\ pc = "done") =>
    \A j \in Pixels :
      /\ Red(argb[j]) = (Red(argb0[j]) - Green(argb0[j])) % 256
      /\ Blue(argb[j]) = (Blue(argb0[j]) - Green(argb0[j])) % 256
      /\ Alpha(argb[j]) = Alpha(argb0[j])
      /\ Green(argb[j]) = Green(argb0[j])

\* a pixel with green = 0xFF and red = 0x00 went through the vector loop and
\* came out with red = 0x01
C1_Witness ==
  /\ op = "SubtractGreen" /\ pc = "done" /\ num_pixels >= 4
  /\ Green(argb0[1]) = 255 /\ Red(argb0[1]) = 0 /\ Red(argb[1]) = 1
  /\ Blue(argb0[1]) = 1 /\ Blue(argb[1]) = 2

\* C2: when either transform has returned, every pixel, whether it was
\* handled by the 4-pixel vector loop or by the scalar tail, holds what the
\* scalar reference computes from the pixel's original value.
C2_VectorEqualsScalar ==
  (pc = "done") =>
    \A j \in Pixels :
      argb[j] = IF op = "SubtractGreen"
                THEN SubtractGreenPixel_C(argb0[j])
                ELSE TransformColorPixel_C(m, argb0[j])

\* a colour transform with negative multipliers on a pixel of the vector
\* loop with negative green and red, whose red and blue both changed
C2_Witness ==
  /\ op = "TransformColor" /\ pc = "done" /\ num_pixels = 7
  /\ m.green_to_red_ >= 128 /\ m.green_to_blue_ >= 128 /\ m.red_to_blue_ >= 128
  /\ Green(argb0[2]) >= 128 /\ Red(argb0[2]) >= 128
  /\ Red(argb[2]) # Red(argb0[2]) /\ Blue(argb[2]) # Blue(argb0[2])
  /\ argb[6] # argb0[6]

\* C6: TransformColor never changes a pixel's alpha or green byte, the
\* buffer's length or the memory after the buffer; and when it has returned,
\* two pixels that started equal are equal, wherever they sit in the buffer.
C6_TransformColorFrame ==
  (op = "TransformColor") =>
    /\ DOMAIN argb = DOMAIN argb0
    /\ \A j \in Pixels :
         /\ Alpha(argb[j]) = Alpha(argb0[j])
         /\ Green(argb[j]) = Green(argb0[j])
    /\ \A j \in DOMAIN argb : j > num_pixels => argb[j] = argb0[j]
    /\ (pc = "done") =>
         \A j, k \in Pixels : argb0[j] = argb0[k] => argb[j] = argb[k]

\* a finished colour transform that changed red and blue of pixel 1 (vector
\* loop) and of its equal pixel 7 (scalar tail), the product being negative
C6_Witness ==
  /\ op = "TransformColor" /\ pc = "done" /\ num_pixels = 7
  /\ argb0[1] = argb0[7] /\ argb[1] # argb0[1]
  /\ m.green_to_red_ >= 128 /\ Green(argb0[1]) \in 1..127
  /\ Red(argb[1]) # Red(argb0[1])

\* C7: with all three multipliers zero, TransformColor leaves the buffer as
\* it was.
C7_ZeroMultipliersNoOp ==
  (op = "TransformColor" /\ m = NoMultipliers) => argb = argb0

\* a finished zero-multiplier colour transform over vector groups and a tail,
\* on pixels whose green and red are not zero
C7_Witness ==
  /\ op = "TransformColor" /\ m = NoMultipliers /\ pc = "done"
  /\ num_pixels = 9
  /\ \A j \in Pixels : Green(argb0[j]) # 0 /\ Red(argb0[j]) # 0

\* the documented inverses: add green back; add the deltas back, the
\* red-to-blue one computed from the restored red
AddGreenToBlueAndRed(px) ==
  Pixel(Alpha(px), (Red(px) + Green(px)) % 256, Green(px),
        (Blue(px) + Green(px)) % 256)

TransformColorInverse(mm, px) ==
  LET green == Green(px)
      new_red == (Red(px) + ColorTransformDelta(mm.green_to_red_, green)) % 256
      new_blue == (Blue(px) + ColorTransformDelta(mm.green_to_blue_, green)
                            + ColorTransformDelta(mm.red_to_blue_, new_red)) % 256
  IN  Pixel(Alpha(px), new_red, green, new_blue)

\* C8: when a transform has returned, its inverse (with the same multipliers)
\* maps every pixel back to its original value, and pixels that started
\* different are still different.
C8_InformationPreserving ==
  (pc = "done") =>
    /\ \A j \in Pixels :
         argb0[j] = IF op = "SubtractGreen"
                    THEN AddGreenToBlueAndRed(argb[j])
                    ELSE TransformColorInverse(m, argb[j])
    /\ \A j, k \in Pixels : argb0[j] # argb0[k] => argb[j] # argb[k]

\* a finished colour transform with three non-zero multipliers that changed
\* a pixel of the vector loop and one of the tail
C8_Witness ==
  /\ op = "TransformColor" /\ pc = "done" /\ num_pixels = 6
  /\ m.green_to_red_ = 3 /\ m.green_to_blue_ = 128 /\ m.red_to_blue_ = 255
  /\ Red(argb[1]) # Red(argb0[1]) /\ Blue(argb[1]) # Blue(argb0[1])
  /\ argb[6] # argb0[6]

\* C10: the vector loop of either transform has loaded and stored exactly
\* the indices below i, once each, with i a multiple of 4 and i <= n; the
\* scalar fallback then gets the n - i < 4 remaining pixels, so that on
\* return every index below n was loaded and stored once and nothing at or
\* after n was loaded, stored or changed.
C10_TailHandling ==
  /\ i % 4 = 0 /\ i <= num_pixels
  /\ (pc = "done") => i = 4 * (num_pixels \div 4) /\ (num_pixels - i) \in 0..3
  /\ \A j \in DOMAIN argb :
       LET reached == IF pc = "done" THEN j <= num_pixels ELSE j <= i
       IN  /\ loads[j] = (IF reached THEN 1 ELSE 0)
           /\ stores[j] = (IF reached THEN 1 ELSE 0)
           /\ ~reached => argb[j] = argb0[j]

\* a finished call on 4k - 1 pixels: one vector group and three tail pixels
C10_Witness ==
  /\ pc = "done" /\ num_pixels = 7 /\ i = 4
  /\ \A j \in 1..7 : stores[j] = 1 /\ argb[j] # argb0[j]

\* a finished call on exactly 4k pixels: two groups and an empty tail
C10_WitnessMultiple ==
  /\ pc = "done" /\ num_pixels = 8 /\ i = 8
  /\ \A j \in 1..8 : stores[j] = 1

-----------------------------------------------------------------------------
\* Histograms. A VP8LHistogram is a record of counter arrays (sequences,
\* element k+1 holding C index k); mem maps an address to the histogram
\* stored there; a pointer to one of its arrays is <<address, field>>.

NUM_LITERAL_CODES == 256

NUM_LENGTH_CODES == 24

NUM_DISTANCE_CODES == 40

\* #define LINE_SIZE 16    // 8 or 16
LINE_SIZE == 16

VP8LHistogramNumCodes(palette_code_bits) ==
  NUM_LITERAL_CODES + NUM_LENGTH_CODES
    + (IF palette_code_bits > 0 THEN Pow2(palette_code_bits) ELSE 0)

Arr(mm, ptr) == mm[ptr[1]][ptr[2]]

\* _mm_storeu_si128((__m128i*)&out[at], v) on the array out points to
StoreVec(mm, out, at, v) ==
  Eval(LAMBDA w : [mm EXCEPT ![out[1]][out[2]] =
                     [@ EXCEPT ![at + 1] = w[1], ![at + 2] = w[2],
                               ![at + 3] = w[3], ![at + 4] = w[4]]], v)

\* the #if (LINE_SIZE == 16) halves left out
AddVectorLineHalf(mm, a, b, out, ii) ==
  LET a0 == mm_loadu_si128(Arr(mm, a), ii + 0)
      a1 == mm_loadu_si128(Arr(mm, a), ii + 4)
      b0 == mm_loadu_si128(Arr(mm, b), ii + 0)
      b1 == mm_loadu_si128(Arr(mm, b), ii + 4)
      s0 == StoreVec(mm, out, ii + 0, mm_add_epi32(a0, b0))
  IN  StoreVec(s0, out, ii + 4, mm_add_epi32(a1, b1))

\* one iteration of AddVector's loop: eight loads, then four stores
AddVectorLine(mm, a, b, out, ii) ==
  LET a0 == mm_loadu_si128(Arr(mm, a), ii + 0)
      a1 == mm_loadu_si128(Arr(mm, a), ii + 4)
      a2 == mm_loadu_si128(Arr(mm, a), ii + 8)
      a3 == mm_loadu_si128(Arr(mm, a), ii + 12)
      b0 == mm_loadu_si128(Arr(mm, b), ii + 0)
      b1 == mm_loadu_si128(Arr(mm, b), ii + 4)
      b2 == mm_loadu_si128(Arr(mm, b), ii + 8)
      b3 == mm_loadu_si128(Arr(mm, b), ii + 12)
      s0 == StoreVec(mm, out, ii + 0, mm_add_epi32(a0, b0))
      s1 == StoreVec(s0, out, ii + 4, mm_add_epi32(a1, b1))
      s2 == StoreVec(s1, out, ii + 8, mm_add_epi32(a2, b2))
  IN  StoreVec(s2, out, ii + 12, mm_add_epi32(a3, b3))

RECURSIVE AddVectorLoop(_, _, _, _, _, _)
AddVectorLoop(mm, a, b, out, size, ii) ==
  IF ii < size
  THEN Eval(LAMBDA nm : AddVectorLoop(nm, a, b, out, size, ii + LINE_SIZE),
            AddVectorLine(mm, a, b, out, ii))
  ELSE mm

\* assert(size % LINE_SIZE == 0) holds for the one size passed,
\* NUM_LITERAL_CODES
AddVector(mm, a, b, out, size) ==
  Eval(LAMBDA v : AddVectorLoop(v, a, b, out, size, 0), mm)

\* b0..b3 loaded from a instead of out
AddVectorEqLineLoadsA(mm, a, out, ii) ==
  LET a0 == mm_loadu_si128(Arr(mm, a), ii + 0)
      a1 == mm_loadu_si128(Arr(mm, a), ii + 4)
      a2 == mm_loadu_si128(Arr(mm, a), ii + 8)
      a3 == mm_loadu_si128(Arr(mm, a), ii + 12)
      s0 == StoreVec(mm, out, ii + 0, mm_add_epi32(a0, a0))
      s1 == StoreVec(s0, out, ii + 4, mm_add_epi32(a1, a1))
      s2 == StoreVec(s1, out, ii + 8, mm_add_epi32(a2, a2))
  IN  StoreVec(s2, out, ii + 12, mm_add_epi32(a3, a3))

\* one iteration of AddVectorEq's loop: b0..b3 are loaded from out
AddVectorEqLine(mm, a, out, ii) ==
  LET a0 == mm_loadu_si128(Arr(mm, a), ii + 0)
      a1 == mm_loadu_si128(Arr(mm, a), ii + 4)
      a2 == mm_loadu_si128(Arr(mm, a), ii + 8)
      a3 == mm_loadu_si128(Arr(mm, a), ii + 12)
      b0 == mm_loadu_si128(Arr(mm, out), ii + 0)
      b1 == mm_loadu_si128(Arr(mm, out), ii + 4)
      b2 == mm_loadu_si128(Arr(mm, out), ii + 8)
      b3 == mm_loadu_si128(Arr(mm, out), ii + 12)
      s0 == StoreVec(mm, out, ii + 0, mm_add_epi32(a0, b0))
      s1 == StoreVec(s0, out, ii + 4, mm_add_epi32(a1, b1))
      s2 == StoreVec(s1, out, ii + 8, mm_add_epi32(a2, b2))
  IN  StoreVec(s2, out, ii + 12, mm_add_epi32(a3, b3))

RECURSIVE AddVectorEqLoop(_, _, _, _, _)
AddVectorEqLoop(mm, a, out, size, ii) ==
  IF ii < size
  THEN Eval(LAMBDA nm : AddVectorEqLoop(nm, a, out, size, ii + LINE_SIZE),
            AddVectorEqLine(mm, a, out, ii))
  ELSE mm

AddVectorEq(mm, a, out, size) ==
  Eval(LAMBDA v : AddVectorEqLoop(v, a, out, size, 0), mm)

\* the four fixed-length arrays, in the order HistogramAdd takes them
VectorFields == <<"literal_", "red_", "blue_", "alpha_">>

\* if (b != out) { AddVector(...) x 4 }
HistogramAddDistinct(mm, a, b, out) ==
  LET s1 == AddVector(mm, <<a, "literal_">>, <<b, "literal_">>, <<out, "literal_">>,
                      NUM_LITERAL_CODES)
      s2 == AddVector(s1, <<a, "red_">>, <<b, "red_">>, <<out, "red_">>,
                      NUM_LITERAL_CODES)
      s3 == AddVector(s2, <<a, "blue_">>, <<b, "blue_">>, <<out, "blue_">>,
                      NUM_LITERAL_CODES)
  IN  AddVector(s3, <<a, "alpha_">>, <<b, "alpha_">>, <<out, "alpha_">>,
                NUM_LITERAL_CODES)

\* else { AddVectorEq(...) x 4 }
HistogramAddInPlace(mm, a, out) ==
  LET s1 == AddVectorEq(mm, <<a, "literal_">>, <<out, "literal_">>, NUM_LITERAL_CODES)
      s2 == AddVectorEq(s1, <<a, "red_">>, <<out, "red_">>, NUM_LITERAL_CODES)
      s3 == AddVectorEq(s2, <<a, "blue_">>, <<out, "blue_">>, NUM_LITERAL_CODES)
  IN  AddVectorEq(s3, <<a, "alpha_">>, <<out, "alpha_">>, NUM_LITERAL_CODES)

\* the in-place path chosen by comparing out against a
HistogramAddVectorPartTestsA(mm, a, b, out) ==
  IF a # out THEN HistogramAddDistinct(mm, a, b, out)
  ELSE HistogramAddInPlace(mm, a, out)

HistogramAddVectorPart(mm, a, b, out) ==
  IF b # out THEN HistogramAddDistinct(mm, a, b, out)
  ELSE HistogramAddInPlace(mm, a, out)

\* for (i = from; i < to; ++i) out->f[i] = a->f[i] + b->f[i];
RECURSIVE ScalarAddLoop(_, _, _, _, _, _, _)
ScalarAddLoop(mm, a, b, out, f, ii, to) ==
  IF ii < to
  THEN Eval(LAMBDA nm : ScalarAddLoop(nm, a, b, out, f, ii + 1, to),
            [mm EXCEPT ![out][f][ii + 1] = Add32(mm[a][f][ii + 1], mm[b][f][ii + 1])])
  ELSE mm

HistogramAddLiteralTail(mm, a, b, out) ==
  LET literal_size == VP8LHistogramNumCodes(mm[a].palette_code_bits_)
  IN  ScalarAddLoop(mm, a, b, out, "literal_", NUM_LITERAL_CODES, literal_size)

HistogramAddDistance(mm, a, b, out) ==
  ScalarAddLoop(mm, a, b, out, "distance_", 0, NUM_DISTANCE_CODES)

\* the whole of HistogramAdd(a, b, out) on memory mm
HistogramAdd(mm, a, b, out) ==
  Eval(LAMBDA m2 : HistogramAddDistance(m2, a, b, out),
       Eval(LAMBDA m1 : HistogramAddLiteralTail(m1, a, b, out),
            HistogramAddVectorPart(mm, a, b, out)))

-----------------------------------------------------------------------------
\* Callers of HistogramAdd: three histograms with the same palette_code_bits_
\* and counters of at most 2^28; one call with any of them as a, b and out,
\* then one call accumulating another histogram into the same out.

Addrs == {1, 2, 3}

CounterFields == {"literal_", "red_", "blue_", "alpha_", "distance_"}

\* 2^28, 1, 0xFFFF, 2^28 - 1, 7, 0
CounterVals == <<268435456, 1, 65535, 268435455, 7, 0>>

\* counter k of the f-th array of histogram h under pattern s
GenCounter(h, s, f, k) == CounterVals[((k * (h + f) + s) % Len(CounterVals)) + 1]

FieldNo(f) ==
  CASE f = "literal_" -> 0 [] f = "red_" -> 1 [] f = "blue_" -> 2
    [] f = "alpha_" -> 3 [] f = "distance_" -> 4

GenArray(h, s, f, size) == [k \in 1..size |-> GenCounter(h, s, FieldNo(f), k - 1)]

GenHistogram(h, s, bits) ==
  [palette_code_bits_ |-> bits,
   literal_ |-> GenArray(h, s, "literal_", VP8LHistogramNumCodes(bits)),
   red_ |-> GenArray(h, s, "red_", NUM_LITERAL_CODES),
   blue_ |-> GenArray(h, s, "blue_", NUM_LITERAL_CODES),
   alpha_ |-> GenArray(h, s, "alpha_", NUM_LITERAL_CODES),
   distance_ |-> GenArray(h, s, "distance_", NUM_DISTANCE_CODES)]

GenMem(s, bits) == [h \in Addrs |-> GenHistogram(h, s, bits)]

InitH ==
  /\ op = "HistogramAdd"
  /\ argb = <<>> /\ argb0 = <<>> /\ loads = <<>> /\ stores = <<>>
  /\ num_pixels = 0 /\ i = 0 /\ pc = "off" /\ m = NoMultipliers
  /\ seed \in 0..MaxSeed
  /\ \E bits \in 0..MaxPaletteBits : mem = GenMem(seed, bits)
  /\ mem0 = mem
  /\ pa = 0 /\ pb = 0 /\ pout = 0
  /\ hpc = "idle" /\ ncalls = 0 /\ first = <<>>

\* entry of HistogramAdd; assert(a->palette_code_bits_ == b->palette_code_bits_)
EnterHistogramAdd(a, b, out) ==
  /\ mem[a].palette_code_bits_ = mem[b].palette_code_bits_
  /\ pa' = a /\ pb' = b /\ pout' = out
  /\ mem0' = mem
  /\ hpc' = "vec"
  /\ ncalls' = ncalls + 1
  /\ UNCHANGED <<mem, seed>>
  /\ UNCHANGED tvars

CallHistogramAdd ==
  /\ hpc = "idle"
  /\ \E a \in Addrs, b \in Addrs, out \in Addrs :
       /\ EnterHistogramAdd(a, b, out)
       /\ first' = <<a, b, out>>

CallHistogramAddAgain ==
  /\ hpc = "done" /\ ncalls = 1
  /\ \E c \in Addrs :
       \/ EnterHistogramAdd(c, pout, pout)
       \/ EnterHistogramAdd(pout, c, pout)
  /\ UNCHANGED first

HistogramAddVectorStep ==
  /\ hpc = "vec"
  /\ mem' = HistogramAddVectorPart(mem, pa, pb, pout)
  /\ hpc' = "lit"
  /\ UNCHANGED <<pa, pb, pout, mem0, ncalls, first, seed>>
  /\ UNCHANGED tvars

HistogramAddLiteralTailStep ==
  /\ hpc = "lit"
  /\ mem' = HistogramAddLiteralTail(mem, pa, pb, pout)
  /\ hpc' = "dist"
  /\ UNCHANGED <<pa, pb, pout, mem0, ncalls, first, seed>>
  /\ UNCHANGED tvars

HistogramAddDistanceStep ==
  /\ hpc = "dist"
  /\ mem' = HistogramAddDistance(mem, pa, pb, pout)
  /\ hpc' = "done"
  /\ UNCHANGED <<pa, pb, pout, mem0, ncalls, first, seed>>
  /\ UNCHANGED tvars

NextH ==
  \/ CallHistogramAdd
  \/ CallHistogramAddAgain
  \/ HistogramAddVectorStep
  \/ HistogramAddLiteralTailStep
  \/ HistogramAddDistanceStep

SpecH == InitH /\ [][NextH]_vars

Init == InitT \/ InitH

Next == NextT \/ NextH

Spec == Init /\ [][Next]_vars

-----------------------------------------------------------------------------
\* Properties of HistogramAdd.

\* every counter of histogram x is the sum of the matching counters of y and z
IsSumOf(x, y, z) ==
  \A f \in CounterFields :
    /\ DOMAIN x[f] = DOMAIN y[f]
    /\ \A k \in DOMAIN x[f] : x[f][k] = y[f][k] + z[f][k]

\* C3: when HistogramAdd(a, b, out) has returned and out is neither a nor b,
\* every counter of out (red, blue, alpha, the whole literal array up to
\* VP8LHistogramNumCodes(palette_code_bits), distance) is the sum of the
\* counters a and b had.
C3_HistogramAddSums ==
  (hpc = "done" /\ pout # pa /\ pout # pb) =>
    /\ IsSumOf(mem[pout], mem0[pa], mem0[pb])
    /\ DOMAIN mem[pout].literal_
         = 1..VP8LHistogramNumCodes(mem0[pa].palette_code_bits_)
    /\ DOMAIN mem[pout].red_ = 1..NUM_LITERAL_CODES
    /\ DOMAIN mem[pout].distance_ = 1..NUM_DISTANCE_CODES

\* a returned call with three distinct histograms and a palette, where a and
\* b differ in the last vectorized counters, the last literal counter and the
\* last distance counter, and out held something else
C3_Witness ==
  /\ hpc = "done" /\ pout # pa /\ pout # pb /\ pa # pb
  /\ mem0[pa].palette_code_bits_ = 2
  /\ mem0[pa].alpha_[256] # mem0[pb].alpha_[256]
  /\ mem[pout].alpha_[256] # mem0[pout].alpha_[256]
  /\ mem0[pa].literal_[284] # mem0[pb].literal_[284]
  /\ mem[pout].literal_[284] # mem0[pout].literal_[284]
  /\ mem[pout].distance_[40] # mem0[pout].distance_[40]

\* an address no histogram of mem is stored at, and mem with a zeroed
\* histogram stored there
FreshAddr == Cardinality(Addrs) + 1

WithFresh(mm) ==
  [h \in Addrs \cup {FreshAddr} |->
     IF h \in Addrs THEN mm[h]
     ELSE [f \in DOMAIN mm[1] |->
             IF f = "palette_code_bits_" THEN mm[1][f]
             ELSE [k \in DOMAIN mm[1][f] |-> 0]]]

\* C4: when HistogramAdd(a, out, out) has returned (a distinct from out),
\* out holds exactly the counters that HistogramAdd(a, b, fresh) writes into
\* a fresh output when b holds what out held before the call.
C4_AliasedAccumulate ==
  (hpc = "done" /\ pb = pout /\ pa # pout) =>
    \A f \in CounterFields :
      mem[pout][f] = HistogramAdd(WithFresh(mem0), pa, pb, FreshAddr)[FreshAddr][f]

\* a returned in-place call that changed the first and last vectorized
\* counters, a literal-suffix counter and a distance counter of out
C4_Witness ==
  /\ hpc = "done" /\ pb = pout /\ pa # pout /\ ncalls = 1
  /\ mem0[pa].palette_code_bits_ = 1
  /\ mem[pout].red_[2] # mem0[pout].red_[2]
  /\ mem[pout].alpha_[256] # mem0[pout].alpha_[256]
  /\ mem[pout].literal_[282] # mem0[pout].literal_[282]
  /\ mem[pout].distance_[2] # mem0[pout].distance_[2]
  /\ mem0[pa].red_[2] # mem0[pout].red_[2]

\* C5: when HistogramAdd(a, b, out) has returned and out is the storage of
\* the first input a, every counter of out is (old a + old b); with a, b and
\* out all the same storage that is twice the old value.
C5_OutputAliasesFirstInput ==
  (hpc = "done" /\ pa = pout) => IsSumOf(mem[pout], mem0[pa], mem0[pb])

\* out is a and b is another histogram whose counters differ from a's
C5_Witness ==
  /\ hpc = "done" /\ pa = pout /\ pb # pout /\ ncalls = 1
  /\ mem0[pa].red_[2] # mem0[pb].red_[2]
  /\ mem[pout].red_[2] = mem0[pa].red_[2] + mem0[pb].red_[2]
  /\ mem0[pa].literal_[280] # mem0[pb].literal_[280]
  /\ mem0[pb].red_[2] # 0 /\ mem0[pb].literal_[280] # 0

\* a, b and out are all the same storage
C5_WitnessAllSame ==
  /\ hpc = "done" /\ pa = pout /\ pb = pout /\ ncalls = 1
  /\ mem0[pout].red_[1] = 268435456 /\ mem[pout].red_[1] = 536870912
  /\ mem[pout].distance_[2] = 2 * mem0[pout].distance_[2]
  /\ mem0[pout].distance_[2] # 0

\* the counter histogram h was created with at element k of array f
InitialCounter(h, f, k) == GenCounter(h, seed, FieldNo(f), k - 1)

\* the input other than out of the running (second) call
SecondInput == IF pa = pout THEN pb ELSE pa

\* C9: histograms start with every counter at most 2^28; after out = a + b
\* and then out = out + c (c not out itself), every counter of out is the
\* exact sum of the three original counters, at most 3 * 2^28.
C9_NoOverflowSummedTwice ==
  /\ (ncalls = 0) =>
       \A h \in Addrs : \A f \in CounterFields : \A k \in DOMAIN mem[h][f] :
         mem[h][f][k] \in 0..268435456
  /\ (ncalls = 2 /\ hpc = "done" /\ SecondInput # pout) =>
       \A f \in CounterFields : \A k \in DOMAIN mem[pout][f] :
         /\ mem[pout][f][k] = InitialCounter(first[1], f, k)
                                + InitialCounter(first[2], f, k)
                                + InitialCounter(SecondInput, f, k)
         /\ mem[pout][f][k] \in 0..805306368

\* three distinct histograms summed, with counters of 2^28 in all three
\* reaching 3 * 2^28 in a vectorized array, the literal suffix and the
\* distance array, and a low-half carry (0xFFFF + 1) in another counter
C9_Witness ==
  /\ ncalls = 2 /\ hpc = "done" /\ SecondInput # pout
  /\ first[1] # first[2] /\ first[3] # first[1] /\ first[3] # first[2]
  /\ mem[pout].red_[1] = 805306368
  /\ mem[pout].literal_[259] = 805306368
  /\ mem[pout].distance_[1] = 805306368
  /\ \E k \in 1..NUM_LITERAL_CODES :
       /\ InitialCounter(first[1], "blue_", k) = 65535
       /\ InitialCounter(first[2], "blue_", k) = 1

====
